---- MODULE Spec2Model ----
(***************************************************************************)
(* Reconciliation of store notifications (Apple, Google) against the       *)
(* subscription and entitlement tables of nuxieio/payments.                *)
(*                                                                         *)
(* Every webhook handler is written as a step function: one step per      *)
(* awaited storage call, acting on the handler's locals h and on the three *)
(* tables db.  Spec runs a handler to completion in one action (a request  *)
(* served alone); SpecConc interleaves the steps of two requests;          *)
(* SpecFault lets a storage call of a single request fail.                 *)
(*                                                                         *)
(* Time is counted in days.  Utc::now() is the variable clock; a request   *)
(* is served within one day, so every Utc::now() of one request reads the  *)
(* same value.  Rows carry the columns the handlers read or write;         *)
(* created_at, price_paid, currency, is_trial and is_intro_offer are never *)
(* read nor changed after the insert and are left out.                     *)
(***************************************************************************)
EXTENDS Integers, Sequences, FiniteSets, TLC

VARIABLES
    subscriptions,      \* table subscriptions, in insertion order; id = position
    user_entitlements,  \* table user_entitlements, in insertion order
    users,              \* table users, in insertion order
    clock,              \* Utc::now(), in days
    proc,               \* requests in flight (SpecConc, SpecFault): handler locals
    snap,               \* tables when the requests in flight began (history)
    served,             \* number of requests served so far (history)
    last                \* the request served last (history)

vars == <<subscriptions, user_entitlements, users, clock, proc, snap, served, last>>

----------------------------------------------------------------------------
\* Bounds of the model.
MaxRequests == 3
MaxTime == 1

\* Option::None of a date column, and of a row reference.
NULL == -1
NoRow == 0

\* Program constants.
SubscriptionDays == 30
GracePeriodDays == 16
ExtensionDays == 45

AppleTransactionId == "mock_transaction_id"
AppleOriginalTransactionId == "mock_original_transaction_id"
AppleProductId == "mock_product_id"
AppleAccountToken == "mock_app_account_token"
GoogleOrderId == "GPA.1234-5678-9012-34567"
GoogleOneTimeOrderId == "GPA.9876-5432-1098-76543"

\* Inputs: purchase tokens and store product ids carried by Google notifications.
Tokens == {"tok1"}
SubscriptionIds == {"g_sub", "g_unknown"}
Skus == {"g_once", "g_unknown"}

\* The catalog (tables products and product_entitlements), read-only here.
Products ==
    { [id |-> "p_sub",  apple_product_id |-> AppleProductId, google_product_id |-> "g_sub"],
      [id |-> "p_once", apple_product_id |-> "none",         google_product_id |-> "g_once"] }

NoProduct == [id |-> "none", apple_product_id |-> "none", google_product_id |-> "none"]

\* A lookup that returns a product for every store product id.
Product_find_by_store_product_id_Any(store, store_product_id) ==
    CHOOSE p \in Products : p.id = "p_sub"

Product_find_by_store_product_id(store, store_product_id) ==
    LET hit == { p \in Products :
                   IF store = "apple" THEN p.apple_product_id = store_product_id
                                      ELSE p.google_product_id = store_product_id }
    IN  IF hit = {} THEN NoProduct ELSE CHOOSE p \in hit : TRUE

Product_find_by_id(id) ==
    LET hit == { p \in Products : p.id = id }
    IN  IF hit = {} THEN NoProduct ELSE CHOOSE p \in hit : TRUE

\* The rows of table entitlements.
EntitlementIds == {"e_pro", "e_extra"}

Product_get_entitlements(product_id) ==
    IF product_id = "p_sub" THEN <<"e_pro">>
    ELSE IF product_id = "p_once" THEN <<"e_pro", "e_extra">>
    ELSE <<>>

----------------------------------------------------------------------------
\* Rows.
NoSub ==
    [id |-> NoRow, user_id |-> NoRow, product_id |-> "none",
     original_transaction_id |-> "none", store_transaction_id |-> "none",
     store |-> "none", purchase_date |-> NULL, expires_date |-> NULL,
     cancellation_date |-> NULL, renewal_grace_period_expires_date |-> NULL,
     status |-> "none", auto_renew_status |-> FALSE, updated_at |-> NULL]

Subscription_new(id, user_id, product_id, original_transaction_id, store_transaction_id, store, purchase_date, expires_date, status, auto_renew_status, now) ==
    [id |-> id, user_id |-> user_id, product_id |-> product_id,
     original_transaction_id |-> original_transaction_id,
     store_transaction_id |-> store_transaction_id,
     store |-> store, purchase_date |-> purchase_date, expires_date |-> expires_date,
     cancellation_date |-> NULL, renewal_grace_period_expires_date |-> NULL,
     status |-> status, auto_renew_status |-> auto_renew_status, updated_at |-> now]

UserEntitlement_new(id, user_id, entitlement_id, subscription_id, starts_at, expires_at, now) ==
    [id |-> id, user_id |-> user_id, entitlement_id |-> entitlement_id,
     subscription_id |-> subscription_id, starts_at |-> starts_at,
     expires_at |-> expires_at, updated_at |-> now]

User_new(id, app_user_id) == [id |-> id, app_user_id |-> app_user_id]

\* Uuid::new_v4(): an id no row of the table has.
NewId(table) == Len(table) + 1

----------------------------------------------------------------------------
\* The constraint of the tables: the schema is created by
\* migrations/00001_initial_schema.sql, which the sources include but do not
\* hold. Rows are read and written by id, the primary key; deduplication on
\* (store, original_transaction_id) and on (user, entitlement, subscription)
\* is the engine's duty, so the tables accept any row with a new id.
Schema_accepts(table, row) == \A i \in DOMAIN table : table[i].id # row.id

\* Storage calls on table users.
User_create(table, user) == IF Schema_accepts(table, user) THEN Append(table, user) ELSE table

User_find_by_app_user_id(table, app_user_id) ==
    { i \in DOMAIN table : table[i].app_user_id = app_user_id }

\* Storage calls on table subscriptions.
Subscription_create(table, s) == IF Schema_accepts(table, s) THEN Append(table, s) ELSE table

Subscription_find_by_id(table, id) == { i \in DOMAIN table : table[i].id = id }

Subscription_find_by_store_transaction(table, store, transaction_id) ==
    { i \in DOMAIN table :
        /\ table[i].store = store
        /\ \/ table[i].store_transaction_id = transaction_id
           \/ table[i].original_transaction_id = transaction_id }

Subscription_update_status(table, s, status, now) ==
    IF s.id \in DOMAIN table
    THEN [table EXCEPT ![s.id].status = status, ![s.id].updated_at = now]
    ELSE table

\* Variant of cancel() that does not record the cancellation date.
Subscription_cancel_NoDate(table, s, cancellation_date, now) ==
    IF s.id \in DOMAIN table
    THEN [table EXCEPT ![s.id].status = "cancelled",
                       ![s.id].auto_renew_status = FALSE,
                       ![s.id].updated_at = now]
    ELSE table

\* Variant of cancel() that leaves auto_renew_status as it is.
Subscription_cancel_KeepAutoRenew(table, s, cancellation_date, now) ==
    IF s.id \in DOMAIN table
    THEN [table EXCEPT ![s.id].cancellation_date = cancellation_date,
                       ![s.id].status = "cancelled",
                       ![s.id].updated_at = now]
    ELSE table

Subscription_cancel(table, s, cancellation_date, now) ==
    IF s.id \in DOMAIN table
    THEN [table EXCEPT ![s.id].cancellation_date = cancellation_date,
                       ![s.id].status = "cancelled",
                       ![s.id].auto_renew_status = FALSE,
                       ![s.id].updated_at = now]
    ELSE table

Subscription_update_expiry(table, s, expires_date, now) ==
    IF s.id \in DOMAIN table
    THEN [table EXCEPT ![s.id].expires_date = expires_date, ![s.id].updated_at = now]
    ELSE table

\* Variant of update_auto_renew_status() that also cancels when renewal is turned off.
Subscription_update_auto_renew_status_Cancels(table, s, auto_renew, now) ==
    IF s.id \in DOMAIN table
    THEN [table EXCEPT ![s.id].auto_renew_status = auto_renew,
                       ![s.id].status = IF auto_renew THEN @ ELSE "cancelled",
                       ![s.id].updated_at = now]
    ELSE table

Subscription_update_auto_renew_status(table, s, auto_renew, now) ==
    IF s.id \in DOMAIN table
    THEN [table EXCEPT ![s.id].auto_renew_status = auto_renew, ![s.id].updated_at = now]
    ELSE table

\* Variant of update() that leaves a Refunded row as it is.
Subscription_update_KeepRefunded(table, s, now) ==
    IF s.id \in DOMAIN table /\ table[s.id].status # "refunded"
    THEN [table EXCEPT ![s.id] = [s EXCEPT !.updated_at = now]]
    ELSE table

\* Variant of update() that writes the status column only.
Subscription_update_StatusOnly(table, s, now) ==
    IF s.id \in DOMAIN table
    THEN [table EXCEPT ![s.id].status = s.status, ![s.id].updated_at = now]
    ELSE table

\* Writes every column of the struct s the handler holds.
Subscription_update(table, s, now) ==
    IF s.id \in DOMAIN table
    THEN [table EXCEPT ![s.id] = [s EXCEPT !.updated_at = now]]
    ELSE table

\* Storage calls on table user_entitlements.
UserEntitlement_create(table, e) == IF Schema_accepts(table, e) THEN Append(table, e) ELSE table

\* Variant of the WHERE clause that keeps a row through the instant it expires.
IsActive_Inclusive(e, now) ==
    /\ e.starts_at <= now
    /\ (e.expires_at = NULL \/ e.expires_at >= now)

\* Variant of the WHERE clause without its "expires_at IS NULL" alternative.
IsActive_NoNull(e, now) == e.starts_at <= now /\ e.expires_at > now

IsActive(e, now) ==
    /\ e.starts_at <= now
    /\ (e.expires_at = NULL \/ e.expires_at > now)

UserEntitlement_list_active_for_user(table, user_id, now) ==
    SelectSeq(table, LAMBDA e : e.user_id = user_id /\ IsActive(e, now))

UserEntitlement_find_active_for_user(table, user_id, entitlement_id, now) ==
    { i \in DOMAIN table :
        /\ table[i].user_id = user_id
        /\ table[i].entitlement_id = entitlement_id
        /\ IsActive(table[i], now) }

\* GET /users/:user_id/entitlements/:entitlement_id/access.  expires_at is
\* that of the row LIMIT 1 returns: any of the matching rows.
check_entitlement_access(table, user_id, entitlement_id, now) ==
    LET hit == UserEntitlement_find_active_for_user(table, user_id, entitlement_id, now)
    IN  [has_access |-> hit # {}, expires_at |-> { table[i].expires_at : i \in hit }]

UserEntitlement_update_expiry(table, id, expires_at, now) ==
    IF id \in DOMAIN table
    THEN [table EXCEPT ![id].expires_at = expires_at, ![id].updated_at = now]
    ELSE table

\* Variant of revoke() that removes the row, as delete() does.
UserEntitlement_revoke_Delete(table, id, now) ==
    SelectSeq(table, LAMBDA e : e.id # id)

\* Variant of revoke() that touches the row without ending it.
UserEntitlement_revoke_KeepExpiry(table, id, now) ==
    IF id \in DOMAIN table
    THEN [table EXCEPT ![id].updated_at = now]
    ELSE table

UserEntitlement_revoke(table, id, now) ==
    IF id \in DOMAIN table
    THEN [table EXCEPT ![id].expires_at = now, ![id].updated_at = now]
    ELSE table

----------------------------------------------------------------------------
\* The locals of a request being served.  pc names the storage call the
\* handler makes next; pick is the row its fetch_optional() returns (SQL gives
\* no order, so any matching row); sub is the Subscription struct it holds.
\* notification is the payload's type as the vendor sent it: kind is the
\* payload part that carries it, type the notificationType / notification_type.
NoNotification == [kind |-> "none", type |-> "none"]

Idle ==
    [fn |-> "idle", store |-> "none", tx |-> "none", user_token |-> "none",
     product |-> "none", info |-> FALSE, occurred_at |-> NULL, pick |-> NoRow,
     pc |-> "idle", user_id |-> NoRow, sub |-> NoSub, todo |-> <<>>, grants |-> <<>>,
     result |-> "none", pre_status |-> "none", pre_updated_at |-> NULL,
     notification |-> NoNotification, entitlement_id |-> "none", expires_at |-> NULL]

Request(fn, store, tx, user_token, product, info, occurred_at, pick) ==
    [Idle EXCEPT !.fn = fn, !.store = store, !.tx = tx, !.user_token = user_token,
                 !.product = product, !.info = info, !.occurred_at = occurred_at,
                 !.pick = pick, !.pc = "start"]

Goto(h, db, pc) == [h |-> [h EXCEPT !.pc = pc], db |-> db]

\* return Ok(()) / return Err(..)
Return(h, db, result) == [h |-> [h EXCEPT !.pc = "done", !.result = result], db |-> db]

\* A lookup whose handler answers Ok when no subscription matches.
FindSubscription_Ignore(h, db, pc) ==
    IF h.pick = NoRow
    THEN Return(h, db, "ok")
    ELSE Goto([h EXCEPT !.sub = db.subscriptions[h.pick],
                        !.pre_status = db.subscriptions[h.pick].status,
                        !.pre_updated_at = db.subscriptions[h.pick].updated_at], db, pc)

\* Subscription::find_by_store_transaction(..).await?.ok_or_else(|| NotFound)
FindSubscription(h, db, pc) ==
    IF h.pick = NoRow
    THEN Return(h, db, "NotFound")
    ELSE Goto([h EXCEPT !.sub = db.subscriptions[h.pick],
                        !.pre_status = db.subscriptions[h.pick].status,
                        !.pre_updated_at = db.subscriptions[h.pick].updated_at], db, pc)

\* A loop without the filter on subscription_id: every active row of the user.
ListLinkedActive_Unfiltered(h, db, now) ==
    LET active == UserEntitlement_list_active_for_user(db.user_entitlements, h.sub.user_id, now)
        ids    == [i \in DOMAIN active |-> active[i].id]
    IN  IF ids = <<>> THEN Return(h, db, "ok")
        ELSE Goto([h EXCEPT !.todo = ids], db, "cascade")

\* A loop over every row linked to the subscription, active or not.
ListLinkedActive_All(h, db, now) ==
    LET linked == SelectSeq(db.user_entitlements, LAMBDA e : e.subscription_id = h.sub.id)
        ids    == [i \in DOMAIN linked |-> linked[i].id]
    IN  IF ids = <<>> THEN Return(h, db, "ok")
        ELSE Goto([h EXCEPT !.todo = ids], db, "cascade")

\* UserEntitlement::list_active_for_user(&subscription.user_id, Utc::now()) and the
\* loop's filter  entitlement.subscription_id == Some(subscription.id)
ListLinkedActive(h, db, now) ==
    LET active == UserEntitlement_list_active_for_user(db.user_entitlements, h.sub.user_id, now)
        linked == SelectSeq(active, LAMBDA e : e.subscription_id = h.sub.id)
        ids    == [i \in DOMAIN linked |-> linked[i].id]
    IN  IF ids = <<>> THEN Return(h, db, "ok")
        ELSE Goto([h EXCEPT !.todo = ids], db, "cascade")

\* one turn of  for mut entitlement in user_entitlements { entitlement.update_expiry(..) }
CascadeExpiry(h, db, expires_at, now) ==
    LET db2 == [db EXCEPT !.user_entitlements =
                    UserEntitlement_update_expiry(@, Head(h.todo), expires_at, now)]
        h2  == [h EXCEPT !.todo = Tail(@)]
    IN  IF h2.todo = <<>> THEN Return(h2, db2, "ok") ELSE Goto(h2, db2, "cascade")

\* one turn of  for mut entitlement in user_entitlements { entitlement.revoke(pool) }
CascadeRevoke(h, db, now) ==
    LET db2 == [db EXCEPT !.user_entitlements = UserEntitlement_revoke(@, Head(h.todo), now)]
        h2  == [h EXCEPT !.todo = Tail(@)]
    IN  IF h2.todo = <<>> THEN Return(h2, db2, "ok") ELSE Goto(h2, db2, "cascade")

\* product.get_entitlements(pool): the entitlement ids the loop will grant
GetEntitlements(h, db, product_id) ==
    LET ids == Product_get_entitlements(product_id)
    IN  IF ids = <<>> THEN Return(h, db, "ok")
        ELSE Goto([h EXCEPT !.grants = ids], db, "grant")

\* A loop that leaves after its first turn.
Grant_FirstOnly(h, db, starts_at, expires_at, now) ==
    LET e == UserEntitlement_new(NewId(db.user_entitlements), h.user_id, Head(h.grants),
                                 h.sub.id, starts_at, expires_at, now)
    IN  Return([h EXCEPT !.grants = <<>>],
               [db EXCEPT !.user_entitlements = UserEntitlement_create(@, e)], "ok")

\* one turn of  for entitlement_id in entitlement_ids { UserEntitlement::new(..).create(pool) }
Grant(h, db, starts_at, expires_at, now) ==
    LET e   == UserEntitlement_new(NewId(db.user_entitlements), h.user_id, Head(h.grants),
                                   h.sub.id, starts_at, expires_at, now)
        db2 == [db EXCEPT !.user_entitlements = UserEntitlement_create(@, e)]
        h2  == [h EXCEPT !.grants = Tail(@)]
    IN  IF h2.grants = <<>> THEN Return(h2, db2, "ok") ELSE Goto(h2, db2, "grant")

\* User::find_by_app_user_id(token): Some(user) => user.id, None => create next
FindUser(h, db, pc) ==
    IF h.pick = NoRow
    THEN Goto(h, db, "create_user")
    ELSE Goto([h EXCEPT !.user_id = db.users[h.pick].id], db, pc)

\* User::new(token, None).create(pool)
CreateUser(h, db, pc) ==
    LET u == User_new(NewId(db.users), h.user_token)
    IN  Goto([h EXCEPT !.user_id = u.id], [db EXCEPT !.users = User_create(@, u)], pc)

\* Subscription::new(..).create(pool)
CreateSubscription(h, db, s, pc) ==
    Goto([h EXCEPT !.sub = s], [db EXCEPT !.subscriptions = Subscription_create(@, s)], pc)

----------------------------------------------------------------------------
\* Apple handlers (webhooks/apple.rs).  Each reads its identifiers from the
\* constants above; info tells whether the payload carries the signed
\* transaction (or renewal) info the handler asks for.

process_new_subscription(h, db, now) ==
    CASE h.pc = "start" ->
           IF ~h.info THEN Return(h, db, "ok")
           ELSE IF Product_find_by_store_product_id("apple", h.product) = NoProduct
                THEN Return(h, db, "NotFound")
                ELSE FindUser(h, db, "create_subscription")
      [] h.pc = "create_user" -> CreateUser(h, db, "create_subscription")
      [] h.pc = "create_subscription" ->
           CreateSubscription(h, db,
               Subscription_new(NewId(db.subscriptions), h.user_id,
                                Product_find_by_store_product_id("apple", h.product).id,
                                h.tx, AppleTransactionId, "apple",
                                now, now + SubscriptionDays, "active", TRUE, now),
               "get_entitlements")
      [] h.pc = "get_entitlements" -> GetEntitlements(h, db, h.sub.product_id)
      [] h.pc = "grant" -> Grant(h, db, h.sub.purchase_date, h.sub.expires_date, now)

process_subscription_renewal(h, db, now) ==
    CASE h.pc = "start" ->
           IF ~h.info THEN Return(h, db, "ok") ELSE FindSubscription(h, db, "update")
      [] h.pc = "update" ->
           LET s == [h.sub EXCEPT !.store_transaction_id = AppleTransactionId,
                                  !.expires_date = now + SubscriptionDays,
                                  !.status = "active"]
           IN  Goto([h EXCEPT !.sub = s],
                    [db EXCEPT !.subscriptions = Subscription_update(@, s, now)],
                    "list_active")
      [] h.pc = "list_active" -> ListLinkedActive(h, db, now)
      [] h.pc = "cascade" -> CascadeExpiry(h, db, h.sub.expires_date, now)

process_subscription_expiration(h, db, now) ==
    CASE h.pc = "start" ->
           IF ~h.info THEN Return(h, db, "ok") ELSE FindSubscription(h, db, "update_status")
      [] h.pc = "update_status" ->
           Goto(h, [db EXCEPT !.subscriptions =
                        Subscription_update_status(@, h.sub, "expired", now)], "list_active")
      [] h.pc = "list_active" -> ListLinkedActive(h, db, now)
      [] h.pc = "cascade" -> CascadeExpiry(h, db, now, now)

process_renewal_status_change(h, db, now) ==
    CASE h.pc = "start" ->
           IF ~h.info THEN Return(h, db, "ok") ELSE FindSubscription(h, db, "update_auto_renew")
      [] h.pc = "update_auto_renew" ->
           Return(h, [db EXCEPT !.subscriptions =
                          Subscription_update_auto_renew_status(@, h.sub, FALSE, now)], "ok")

process_renewal_failure(h, db, now) ==
    CASE h.pc = "start" ->
           IF ~h.info THEN Return(h, db, "ok") ELSE FindSubscription(h, db, "update")
      [] h.pc = "update" ->
           LET s == [h.sub EXCEPT !.status = "grace_period",
                                  !.renewal_grace_period_expires_date = now + GracePeriodDays]
           IN  Return([h EXCEPT !.sub = s],
                      [db EXCEPT !.subscriptions = Subscription_update(@, s, now)], "ok")

process_grace_period_expiration(h, db, now) ==
    CASE h.pc = "start" ->
           IF ~h.info THEN Return(h, db, "ok") ELSE FindSubscription(h, db, "update_status")
      [] h.pc = "update_status" ->
           Goto(h, [db EXCEPT !.subscriptions =
                        Subscription_update_status(@, h.sub, "expired", now)], "list_active")
      [] h.pc = "list_active" -> ListLinkedActive(h, db, now)
      [] h.pc = "cascade" -> CascadeExpiry(h, db, now, now)

process_refund(h, db, now) ==
    CASE h.pc = "start" ->
           IF ~h.info THEN Return(h, db, "ok") ELSE FindSubscription(h, db, "update_status")
      [] h.pc = "update_status" ->
           Goto(h, [db EXCEPT !.subscriptions =
                        Subscription_update_status(@, h.sub, "refunded", now)], "list_active")
      [] h.pc = "list_active" -> ListLinkedActive(h, db, now)
      [] h.pc = "cascade" -> CascadeRevoke(h, db, now)

process_renewal_extension(h, db, now) ==
    CASE h.pc = "start" ->
           IF ~h.info THEN Return(h, db, "ok") ELSE FindSubscription(h, db, "update_expiry")
      [] h.pc = "update_expiry" ->
           LET s == [h.sub EXCEPT !.expires_date = now + ExtensionDays]
           IN  Goto([h EXCEPT !.sub = s],
                    [db EXCEPT !.subscriptions =
                         Subscription_update_expiry(@, h.sub, now + ExtensionDays, now)],
                    "list_active")
      [] h.pc = "list_active" -> ListLinkedActive(h, db, now)
      [] h.pc = "cascade" -> CascadeExpiry(h, db, h.sub.expires_date, now)

process_subscription_revocation(h, db, now) ==
    CASE h.pc = "start" ->
           IF ~h.info THEN Return(h, db, "ok") ELSE FindSubscription(h, db, "cancel")
      [] h.pc = "cancel" ->
           Goto(h, [db EXCEPT !.subscriptions = Subscription_cancel(@, h.sub, now, now)],
                "list_active")
      [] h.pc = "list_active" -> ListLinkedActive(h, db, now)
      [] h.pc = "cascade" -> CascadeExpiry(h, db, now, now)

\* process_renewal_change, process_offer_redemption, process_price_increase and
\* process_refund_declined have the body  Ok(())
process_noop(h, db, now) == Return(h, db, "ok")

----------------------------------------------------------------------------
\* Google handlers (webhooks/google.rs).  tx is the notification's purchase
\* token, product its subscriptionId (or sku).

process_subscription_purchased(h, db, now) ==
    CASE h.pc = "start" -> FindUser(h, db, "find_product")
      [] h.pc = "create_user" -> CreateUser(h, db, "find_product")
      [] h.pc = "find_product" ->
           IF Product_find_by_store_product_id("google", h.product) = NoProduct
           THEN Return(h, db, "NotFound")
           ELSE Goto(h, db, "create_subscription")
      [] h.pc = "create_subscription" ->
           CreateSubscription(h, db,
               Subscription_new(NewId(db.subscriptions), h.user_id,
                                Product_find_by_store_product_id("google", h.product).id,
                                h.tx, GoogleOrderId, "google",
                                now, now + SubscriptionDays, "active", TRUE, now),
               "get_entitlements")
      [] h.pc = "get_entitlements" -> GetEntitlements(h, db, h.sub.product_id)
      [] h.pc = "grant" -> Grant(h, db, h.sub.purchase_date, h.sub.expires_date, now)

process_subscription_renewed(h, db, now) ==
    CASE h.pc = "start" -> FindSubscription(h, db, "update")
      [] h.pc = "update" ->
           LET s == [h.sub EXCEPT !.expires_date = now + SubscriptionDays,
                                  !.status = "active"]
           IN  Goto([h EXCEPT !.sub = s],
                    [db EXCEPT !.subscriptions = Subscription_update(@, s, now)],
                    "list_active")
      [] h.pc = "list_active" -> ListLinkedActive(h, db, now)
      [] h.pc = "cascade" -> CascadeExpiry(h, db, h.sub.expires_date, now)

process_subscription_canceled(h, db, now) ==
    CASE h.pc = "start" -> FindSubscription(h, db, "cancel")
      [] h.pc = "cancel" ->
           Return(h, [db EXCEPT !.subscriptions = Subscription_cancel(@, h.sub, now, now)],
                  "ok")

process_subscription_expired(h, db, now) ==
    CASE h.pc = "start" -> FindSubscription(h, db, "update_status")
      [] h.pc = "update_status" ->
           Goto(h, [db EXCEPT !.subscriptions =
                        Subscription_update_status(@, h.sub, "expired", now)], "list_active")
      [] h.pc = "list_active" -> ListLinkedActive(h, db, now)
      [] h.pc = "cascade" -> CascadeExpiry(h, db, now, now)

process_subscription_in_grace_period(h, db, now) ==
    CASE h.pc = "start" -> FindSubscription(h, db, "update")
      [] h.pc = "update" ->
           LET s == [h.sub EXCEPT !.status = "grace_period",
                                  !.renewal_grace_period_expires_date = now + GracePeriodDays]
           IN  Return([h EXCEPT !.sub = s],
                      [db EXCEPT !.subscriptions = Subscription_update(@, s, now)], "ok")

process_subscription_recovered(h, db, now) ==
    CASE h.pc = "start" -> FindSubscription(h, db, "update")
      [] h.pc = "update" ->
           LET s == [h.sub EXCEPT !.expires_date = now + SubscriptionDays,
                                  !.status = "active",
                                  !.renewal_grace_period_expires_date = NULL]
           IN  Goto([h EXCEPT !.sub = s],
                    [db EXCEPT !.subscriptions = Subscription_update(@, s, now)],
                    "list_active")
      [] h.pc = "list_active" -> ListLinkedActive(h, db, now)
      [] h.pc = "cascade" -> CascadeExpiry(h, db, h.sub.expires_date, now)

process_subscription_on_hold(h, db, now) ==
    CASE h.pc = "start" -> FindSubscription(h, db, "update")
      [] h.pc = "update" ->
           LET s == [h.sub EXCEPT !.status = "paused"]
           IN  Goto([h EXCEPT !.sub = s],
                    [db EXCEPT !.subscriptions = Subscription_update(@, s, now)],
                    "list_active")
      [] h.pc = "list_active" -> ListLinkedActive(h, db, now)
      [] h.pc = "cascade" -> CascadeExpiry(h, db, now, now)

process_subscription_restarted(h, db, now) ==
    CASE h.pc = "start" -> FindSubscription(h, db, "update")
      [] h.pc = "update" ->
           LET s == [h.sub EXCEPT !.expires_date = now + SubscriptionDays,
                                  !.status = "active"]
           IN  Goto([h EXCEPT !.sub = s, !.user_id = s.user_id],
                    [db EXCEPT !.subscriptions = Subscription_update(@, s, now)],
                    "find_product")
      [] h.pc = "find_product" ->
           IF Product_find_by_id(h.sub.product_id) = NoProduct
           THEN Return(h, db, "NotFound")
           ELSE GetEntitlements(h, db, h.sub.product_id)
      [] h.pc = "grant" -> Grant(h, db, now, h.sub.expires_date, now)

process_subscription_revoked(h, db, now) ==
    CASE h.pc = "start" -> FindSubscription(h, db, "update_status")
      [] h.pc = "update_status" ->
           Goto(h, [db EXCEPT !.subscriptions =
                        Subscription_update_status(@, h.sub, "refunded", now)], "list_active")
      [] h.pc = "list_active" -> ListLinkedActive(h, db, now)
      [] h.pc = "cascade" -> CascadeRevoke(h, db, now)

process_one_time_purchased(h, db, now) ==
    CASE h.pc = "start" -> FindUser(h, db, "find_product")
      [] h.pc = "create_user" -> CreateUser(h, db, "find_product")
      [] h.pc = "find_product" ->
           IF Product_find_by_store_product_id("google", h.product) = NoProduct
           THEN Return(h, db, "NotFound")
           ELSE Goto(h, db, "create_subscription")
      [] h.pc = "create_subscription" ->
           CreateSubscription(h, db,
               Subscription_new(NewId(db.subscriptions), h.user_id,
                                Product_find_by_store_product_id("google", h.product).id,
                                h.tx, GoogleOneTimeOrderId, "google",
                                now, NULL, "active", FALSE, now),
               "get_entitlements")
      [] h.pc = "get_entitlements" -> GetEntitlements(h, db, h.sub.product_id)
      [] h.pc = "grant" -> Grant(h, db, h.sub.purchase_date, NULL, now)

process_one_time_canceled(h, db, now) ==
    CASE h.pc = "start" -> FindSubscription(h, db, "update_status")
      [] h.pc = "update_status" ->
           Goto(h, [db EXCEPT !.subscriptions =
                        Subscription_update_status(@, h.sub, "refunded", now)], "list_active")
      [] h.pc = "list_active" -> ListLinkedActive(h, db, now)
      [] h.pc = "cascade" -> CascadeRevoke(h, db, now)

----------------------------------------------------------------------------
\* The subscription API (api/subscriptions.rs).  pick is the row
\* Subscription::find_by_id returns for the path's subscription_id.

\* A cancel that does not look at the status.
cancel_subscription_Any(h, db, now) ==
    CASE h.pc = "start" ->
           IF h.pick = NoRow THEN Return(h, db, "NotFound") ELSE FindSubscription(h, db, "cancel")
      [] h.pc = "cancel" ->
           Return(h, [db EXCEPT !.subscriptions = Subscription_cancel(@, h.sub, now, now)],
                  "ok")

cancel_subscription(h, db, now) ==
    CASE h.pc = "start" ->
           IF h.pick = NoRow THEN Return(h, db, "NotFound")
           ELSE IF db.subscriptions[h.pick].status # "active"
                THEN Return([h EXCEPT !.sub = db.subscriptions[h.pick],
                                      !.pre_status = db.subscriptions[h.pick].status],
                            db, "BadRequest")
                ELSE FindSubscription(h, db, "cancel")
      [] h.pc = "cancel" ->
           Return(h, [db EXCEPT !.subscriptions = Subscription_cancel(@, h.sub, now, now)],
                  "ok")

refund_subscription(h, db, now) ==
    CASE h.pc = "start" -> FindSubscription(h, db, "update_status")
      [] h.pc = "update_status" ->
           Goto(h, [db EXCEPT !.subscriptions =
                        Subscription_update_status(@, h.sub, "refunded", now)], "list_active")
      [] h.pc = "list_active" -> ListLinkedActive(h, db, now)
      [] h.pc = "cascade" -> CascadeRevoke(h, db, now)

----------------------------------------------------------------------------
\* The entitlement and user API (api/entitlements.rs, api/users.rs).

\* POST /entitlements/grant: a row tied to no subscription.
grant_entitlement(h, db, now) ==
    CASE h.pc = "start" ->
           IF h.entitlement_id \notin EntitlementIds
           THEN Return(h, db, "NotFound")
           ELSE Goto(h, db, "create")
      [] h.pc = "create" ->
           LET e == UserEntitlement_new(NewId(db.user_entitlements), h.user_id,
                                        h.entitlement_id, NoRow, now, h.expires_at, now)
           IN  Return(h, [db EXCEPT !.user_entitlements = UserEntitlement_create(@, e)], "ok")

\* POST /users/:user_id/entitlements/:entitlement_id/revoke.  pick is the row
\* find_active_for_user returns (LIMIT 1: any active row of the pair).
revoke_entitlement(h, db, now) ==
    CASE h.pc = "start" ->
           IF h.pick = NoRow THEN Return(h, db, "NotFound") ELSE Goto(h, db, "revoke")
      [] h.pc = "revoke" ->
           Return(h, [db EXCEPT !.user_entitlements = UserEntitlement_revoke(@, h.pick, now)],
                  "ok")

\* POST /users.  pick is the row User::find_by_app_user_id returns.
create_user(h, db, now) ==
    CASE h.pc = "start" ->
           IF h.pick # NoRow THEN Return(h, db, "BadRequest") ELSE Goto(h, db, "create")
      [] h.pc = "create" ->
           LET u == User_new(NewId(db.users), h.user_token)
           IN  Return([h EXCEPT !.user_id = u.id],
                      [db EXCEPT !.users = User_create(@, u)], "ok")

----------------------------------------------------------------------------
\* Dispatch: the handler a request runs (handle_apple_webhook's match on
\* notificationType, process_subscription_notification's and
\* process_one_time_notification's match on notification_type, the router).
Step(h, db, now) ==
    CASE h.fn = "process_new_subscription" -> process_new_subscription(h, db, now)
      [] h.fn = "process_subscription_renewal" -> process_subscription_renewal(h, db, now)
      [] h.fn = "process_subscription_expiration" -> process_subscription_expiration(h, db, now)
      [] h.fn = "process_renewal_status_change" -> process_renewal_status_change(h, db, now)
      [] h.fn = "process_renewal_failure" -> process_renewal_failure(h, db, now)
      [] h.fn = "process_grace_period_expiration" -> process_grace_period_expiration(h, db, now)
      [] h.fn = "process_refund" -> process_refund(h, db, now)
      [] h.fn = "process_renewal_extension" -> process_renewal_extension(h, db, now)
      [] h.fn = "process_subscription_revocation" -> process_subscription_revocation(h, db, now)
      [] h.fn = "process_subscription_purchased" -> process_subscription_purchased(h, db, now)
      [] h.fn = "process_subscription_renewed" -> process_subscription_renewed(h, db, now)
      [] h.fn = "process_subscription_canceled" -> process_subscription_canceled(h, db, now)
      [] h.fn = "process_subscription_expired" -> process_subscription_expired(h, db, now)
      [] h.fn = "process_subscription_in_grace_period" ->
             process_subscription_in_grace_period(h, db, now)
      [] h.fn = "process_subscription_recovered" -> process_subscription_recovered(h, db, now)
      [] h.fn = "process_subscription_on_hold" -> process_subscription_on_hold(h, db, now)
      [] h.fn = "process_subscription_restarted" -> process_subscription_restarted(h, db, now)
      [] h.fn = "process_subscription_revoked" -> process_subscription_revoked(h, db, now)
      [] h.fn = "process_one_time_purchased" -> process_one_time_purchased(h, db, now)
      [] h.fn = "process_one_time_canceled" -> process_one_time_canceled(h, db, now)
      [] h.fn = "cancel_subscription" -> cancel_subscription(h, db, now)
      [] h.fn = "refund_subscription" -> refund_subscription(h, db, now)
      [] h.fn = "grant_entitlement" -> grant_entitlement(h, db, now)
      [] h.fn = "revoke_entitlement" -> revoke_entitlement(h, db, now)
      [] h.fn = "create_user" -> create_user(h, db, now)
      [] h.fn = "unknown_notification_type" -> Return(h, db, "BadRequest")
      [] OTHER -> process_noop(h, db, now)

\* A request served alone: its storage calls one after the other.
RECURSIVE Run(_, _, _)
Run(h, db, now) ==
    IF h.pc = "done" THEN [h |-> h, db |-> db]
    ELSE LET r == Step(h, db, now) IN Run(r.h, r.db, now)

PurchaseHandlers ==
    {"process_new_subscription", "process_subscription_purchased", "process_one_time_purchased"}

\* The rows the request's fetch_optional() can return: a user for the
\* purchase handlers, a subscription for the others; NoRow when none matches.
Picks(fn, store, tx, user_token, db) ==
    LET hit == IF fn \in PurchaseHandlers
               THEN User_find_by_app_user_id(db.users, user_token)
               ELSE Subscription_find_by_store_transaction(db.subscriptions, store, tx)
    IN  IF hit = {} THEN {NoRow} ELSE hit

DB == [subscriptions |-> subscriptions, user_entitlements |-> user_entitlements,
       users |-> users]

EmptyDB == [subscriptions |-> <<>>, user_entitlements |-> <<>>, users |-> <<>>]

\* What is remembered of the request served last.
Summary(h) ==
    [fn |-> IF h.sub.id = NoRow THEN "idle" ELSE h.fn,
     sub |-> h.sub.id, pre_status |-> h.pre_status,
     stale |-> (h.sub.id # NoRow /\ h.occurred_at # NULL /\ h.occurred_at < h.pre_updated_at),
     result |-> h.result]

NoRequest == Summary(Idle)

\* The notification's own timestamp (signedDate, eventTimeMillis): it may be
\* older than the time the webhook is called.
OccurredAt == { t \in {clock - 1, clock} : t >= 0 }

Serve(h) ==
    LET r == Run(h, DB, clock)
    IN  /\ served < MaxRequests
        /\ served' = served + 1
        /\ subscriptions' = r.db.subscriptions
        /\ user_entitlements' = r.db.user_entitlements
        /\ users' = r.db.users
        /\ last' = Summary(r.h)
        /\ UNCHANGED <<clock, proc, snap>>

Apple(fn, info) ==
    \E at \in OccurredAt :
    \E pick \in Picks(fn, "apple", AppleOriginalTransactionId, AppleAccountToken, DB) :
        Serve(Request(fn, "apple", AppleOriginalTransactionId, AppleAccountToken,
                      AppleProductId, info, at, pick))

Google(fn, token, product) ==
    \E at \in OccurredAt :
    \E pick \in Picks(fn, "google", token, token, DB) :
        Serve(Request(fn, "google", token, token, product, TRUE, at, pick))

\* handle_apple_webhook, one action per notificationType
AppleSUBSCRIBED == \E info \in BOOLEAN : Apple("process_new_subscription", info)
AppleDID_RENEW == \E info \in BOOLEAN : Apple("process_subscription_renewal", info)
AppleEXPIRED == \E info \in BOOLEAN : Apple("process_subscription_expiration", info)
AppleDID_CHANGE_RENEWAL_STATUS == \E info \in BOOLEAN : Apple("process_renewal_status_change", info)
AppleDID_FAIL_TO_RENEW == \E info \in BOOLEAN : Apple("process_renewal_failure", info)
AppleGRACE_PERIOD_EXPIRED == \E info \in BOOLEAN : Apple("process_grace_period_expiration", info)
AppleREFUND == \E info \in BOOLEAN : Apple("process_refund", info)
AppleRENEWAL_EXTENDED == \E info \in BOOLEAN : Apple("process_renewal_extension", info)
AppleREVOKE == \E info \in BOOLEAN : Apple("process_subscription_revocation", info)

\* process_subscription_notification, one action per notification_type
GoogleSubscription1 == \E tok \in Tokens : Google("process_subscription_recovered", tok, "none")
GoogleSubscription2 == \E tok \in Tokens : Google("process_subscription_renewed", tok, "none")
GoogleSubscription3 == \E tok \in Tokens : Google("process_subscription_canceled", tok, "none")
GoogleSubscription4 ==
    \E tok \in Tokens, product \in SubscriptionIds :
        Google("process_subscription_purchased", tok, product)
GoogleSubscription5 == \E tok \in Tokens : Google("process_subscription_on_hold", tok, "none")
GoogleSubscription6 ==
    \E tok \in Tokens : Google("process_subscription_in_grace_period", tok, "none")
GoogleSubscription7 == \E tok \in Tokens : Google("process_subscription_restarted", tok, "none")
GoogleSubscription12 == \E tok \in Tokens : Google("process_subscription_revoked", tok, "none")
GoogleSubscription13 == \E tok \in Tokens : Google("process_subscription_expired", tok, "none")

\* process_one_time_notification
GoogleOneTime1 ==
    \E tok \in Tokens, product \in Skus :
        Google("process_one_time_purchased", tok, product)
GoogleOneTime2 == \E tok \in Tokens : Google("process_one_time_canceled", tok, "none")

\* POST /subscriptions/:subscription_id/cancel and /refund
Api(fn) ==
    \E id \in 1..MaxRequests :
        LET hit == Subscription_find_by_id(subscriptions, id)
            pick == IF hit = {} THEN NoRow ELSE CHOOSE i \in hit : TRUE
        IN  Serve(Request(fn, "none", "none", "none", "none", TRUE, NULL, pick))

ApiCancel == Api("cancel_subscription")
ApiRefund == Api("refund_subscription")

\* A day passes.
Tick ==
    /\ clock < MaxTime
    /\ \A p \in DOMAIN proc : proc[p].pc = "idle"
    /\ clock' = clock + 1
    /\ last' = NoRequest
    /\ UNCHANGED <<subscriptions, user_entitlements, users, proc, snap, served>>

Procs == {1, 2}

Init ==
    /\ subscriptions = <<>>
    /\ user_entitlements = <<>>
    /\ users = <<>>
    /\ clock = 0
    /\ proc = [p \in Procs |-> Idle]
    /\ snap = EmptyDB
    /\ served = 0
    /\ last = NoRequest

Next ==
    \/ AppleSUBSCRIBED
    \/ AppleDID_RENEW
    \/ AppleEXPIRED
    \/ AppleDID_CHANGE_RENEWAL_STATUS
    \/ AppleDID_FAIL_TO_RENEW
    \/ AppleGRACE_PERIOD_EXPIRED
    \/ AppleREFUND
    \/ AppleRENEWAL_EXTENDED
    \/ AppleREVOKE
    \/ GoogleSubscription1
    \/ GoogleSubscription2
    \/ GoogleSubscription3
    \/ GoogleSubscription4
    \/ GoogleSubscription5
    \/ GoogleSubscription6
    \/ GoogleSubscription7
    \/ GoogleSubscription12
    \/ GoogleSubscription13
    \/ GoogleOneTime1
    \/ GoogleOneTime2
    \/ ApiCancel
    \/ ApiRefund
    \/ Tick

Spec == Init /\ [][Next]_vars

----------------------------------------------------------------------------
\* Requests served step by step.  The server (axum on tokio, a pool of ten
\* connections, no transaction and no lock in any handler) runs the handlers
\* of concurrent requests interleaved at their awaits.

Running(h) == h.pc \notin {"idle", "done"}

\* A request arrives at worker p and makes its first storage call.
Arrive(p, h) ==
    LET r == Step(h, DB, clock)
    IN  /\ proc[p].pc = "idle"
        /\ served < MaxRequests
        /\ proc' = [proc EXCEPT ![p] = r.h]
        /\ subscriptions' = r.db.subscriptions
        /\ user_entitlements' = r.db.user_entitlements
        /\ users' = r.db.users
        /\ snap' = IF \A q \in DOMAIN proc : proc[q].pc = "idle" THEN DB ELSE snap
        /\ served' = served + 1
        /\ UNCHANGED <<clock, last>>

\* The request of worker p makes its next storage call.
StepRequest(p) ==
    LET r == Step(proc[p], DB, clock)
    IN  /\ Running(proc[p])
        /\ proc' = [proc EXCEPT ![p] = r.h]
        /\ subscriptions' = r.db.subscriptions
        /\ user_entitlements' = r.db.user_entitlements
        /\ users' = r.db.users
        /\ UNCHANGED <<clock, snap, served, last>>

\* The next storage call of worker p's request fails (sqlx::Error): the ?
\* operator returns AppError::DatabaseError, and what was written stays.
StorageFailure(p) ==
    /\ Running(proc[p])
    /\ proc' = [proc EXCEPT ![p].pc = "done", ![p].result = "DatabaseError"]
    /\ UNCHANGED <<subscriptions, user_entitlements, users, clock, snap, served, last>>

\* The responses are sent once no request is running.
Respond ==
    /\ \A p \in DOMAIN proc : ~Running(proc[p])
    /\ \E p \in DOMAIN proc : proc[p].pc = "done"
    /\ proc' = [p \in DOMAIN proc |-> Idle]
    /\ last' = NoRequest
    /\ UNCHANGED <<subscriptions, user_entitlements, users, clock, snap, served>>

\* The requests of the interleaving: Apple SUBSCRIBED, DID_RENEW and REFUND,
\* all for the one Apple subscription key.
ConcHandlers ==
    {"process_new_subscription", "process_subscription_renewal", "process_refund"}

ConcArrive(p) ==
    \E fn \in ConcHandlers :
    \E pick \in Picks(fn, "apple", AppleOriginalTransactionId, AppleAccountToken, DB) :
        Arrive(p, Request(fn, "apple", AppleOriginalTransactionId, AppleAccountToken,
                          AppleProductId, TRUE, clock, pick))

NextConc ==
    \/ \E p \in Procs : ConcArrive(p)
    \/ \E p \in Procs : StepRequest(p)
    \/ Respond
    \/ Tick

SpecConc == Init /\ [][NextConc]_vars

\* One request at a time, any of its storage calls may fail.
AppleHandlers ==
    {"process_new_subscription", "process_subscription_renewal",
     "process_subscription_expiration", "process_renewal_status_change",
     "process_renewal_failure", "process_grace_period_expiration", "process_refund",
     "process_renewal_extension", "process_subscription_revocation"}

GoogleSubscriptionHandlers ==
    {"process_subscription_recovered", "process_subscription_renewed",
     "process_subscription_canceled", "process_subscription_on_hold",
     "process_subscription_in_grace_period", "process_subscription_restarted",
     "process_subscription_revoked", "process_subscription_expired",
     "process_one_time_canceled"}

FaultArrive ==
    \/ \E fn \in AppleHandlers :
       \E pick \in Picks(fn, "apple", AppleOriginalTransactionId, AppleAccountToken, DB) :
           Arrive(1, Request(fn, "apple", AppleOriginalTransactionId, AppleAccountToken,
                             AppleProductId, TRUE, clock, pick))
    \/ \E fn \in GoogleSubscriptionHandlers, tok \in Tokens :
       \E pick \in Picks(fn, "google", tok, tok, DB) :
           Arrive(1, Request(fn, "google", tok, tok, "none", TRUE, clock, pick))
    \/ \E tok \in Tokens, product \in SubscriptionIds :
       \E pick \in Picks("process_subscription_purchased", "google", tok, tok, DB) :
           Arrive(1, Request("process_subscription_purchased", "google", tok, tok,
                             product, TRUE, clock, pick))
    \/ \E tok \in Tokens, product \in Skus :
       \E pick \in Picks("process_one_time_purchased", "google", tok, tok, DB) :
           Arrive(1, Request("process_one_time_purchased", "google", tok, tok,
                             product, TRUE, clock, pick))

NextFault ==
    \/ FaultArrive
    \/ StepRequest(1)
    \/ StorageFailure(1)
    \/ Respond
    \/ Tick

SpecFault == Init /\ [][NextFault]_vars

\* The store delivers the failed request of worker p again: the same
\* notification enters its handler anew, on the tables the failed attempt
\* left.  last keeps the response of the failed attempt.
Retry(p) ==
    /\ proc[p].pc = "done" /\ proc[p].result = "DatabaseError"
    /\ served < MaxRequests
    /\ \E pick \in Picks(proc[p].fn, proc[p].store, proc[p].tx, proc[p].user_token, DB) :
         LET h == Request(proc[p].fn, proc[p].store, proc[p].tx, proc[p].user_token,
                          proc[p].product, proc[p].info, proc[p].occurred_at, pick)
             r == Step(h, DB, clock)
         IN  /\ proc' = [proc EXCEPT ![p] = r.h]
             /\ subscriptions' = r.db.subscriptions
             /\ user_entitlements' = r.db.user_entitlements
             /\ users' = r.db.users
    /\ served' = served + 1
    /\ last' = Summary(proc[p])
    /\ UNCHANGED <<clock, snap>>

NextRetry ==
    \/ FaultArrive
    \/ StepRequest(1)
    \/ StorageFailure(1)
    \/ Retry(1)
    \/ Respond
    \/ Tick

SpecRetry == Init /\ [][NextRetry]_vars

----------------------------------------------------------------------------
\* The webhook entry points: the vendor's notification type selects the
\* handler.  A handler name that Step does not know is an arm with no effect.

AppleNotificationTypes ==
    {"SUBSCRIBED", "DID_RENEW", "EXPIRED", "DID_CHANGE_RENEWAL_STATUS", "DID_FAIL_TO_RENEW",
     "GRACE_PERIOD_EXPIRED", "REFUND", "RENEWAL_EXTENDED", "REVOKE", "CONSUMPTION_REQUEST",
     "DID_CHANGE_RENEWAL_PREF", "OFFER_REDEEMED", "PRICE_INCREASE", "REFUND_DECLINED",
     "ONE_TIME_CHARGE"}

\* match payload.notification_type.as_str()
handle_apple_webhook(notification_type) ==
    CASE notification_type = "CONSUMPTION_REQUEST" -> "consumption_request"
      [] notification_type = "DID_CHANGE_RENEWAL_PREF" -> "process_renewal_change"
      [] notification_type = "DID_CHANGE_RENEWAL_STATUS" -> "process_renewal_status_change"
      [] notification_type = "DID_FAIL_TO_RENEW" -> "process_renewal_failure"
      [] notification_type = "DID_RENEW" -> "process_subscription_renewal"
      [] notification_type = "EXPIRED" -> "process_subscription_expiration"
      [] notification_type = "GRACE_PERIOD_EXPIRED" -> "process_grace_period_expiration"
      [] notification_type = "OFFER_REDEEMED" -> "process_offer_redemption"
      [] notification_type = "PRICE_INCREASE" -> "process_price_increase"
      [] notification_type = "REFUND" -> "process_refund"
      [] notification_type = "REFUND_DECLINED" -> "process_refund_declined"
      [] notification_type = "RENEWAL_EXTENDED" -> "process_renewal_extension"
      [] notification_type = "REVOKE" -> "process_subscription_revocation"
      [] notification_type = "SUBSCRIBED" -> "process_new_subscription"
      [] OTHER -> "unknown_notification_type"

\* The notification_type of a subscriptionNotification, in decimal.
GoogleSubscriptionTypes == {"1", "2", "3", "4", "5", "6", "7", "8", "9", "10", "12", "13"}

\* match notification.notification_type; the arm  _ => {}  logs and goes on.
process_subscription_notification(notification_type) ==
    CASE notification_type = "1" -> "process_subscription_recovered"
      [] notification_type = "2" -> "process_subscription_renewed"
      [] notification_type = "3" -> "process_subscription_canceled"
      [] notification_type = "4" -> "process_subscription_purchased"
      [] notification_type = "5" -> "process_subscription_on_hold"
      [] notification_type = "6" -> "process_subscription_in_grace_period"
      [] notification_type = "7" -> "process_subscription_restarted"
      [] notification_type = "12" -> "process_subscription_revoked"
      [] notification_type = "13" -> "process_subscription_expired"
      [] OTHER -> "process_subscription_notification"

GoogleOneTimeTypes == {"1", "2", "3"}

process_one_time_notification(notification_type) ==
    CASE notification_type = "1" -> "process_one_time_purchased"
      [] notification_type = "2" -> "process_one_time_canceled"
      [] OTHER -> "unknown_notification_type"

\* impl IntoResponse for AppError, and the StatusCode::OK of the handlers.
into_response(result) ==
    CASE result = "ok" -> 200
      [] result = "NotFound" -> 404
      [] result = "BadRequest" -> 400
      [] result = "DatabaseError" -> 500

\* The notification enters its handler at worker 1.
Webhook(h, kind, type) ==
    Arrive(1, [h EXCEPT !.notification = [kind |-> kind, type |-> type]])

AppleWebhook ==
    \E type \in AppleNotificationTypes, info \in BOOLEAN :
        LET fn == handle_apple_webhook(type)
        IN  \E pick \in Picks(fn, "apple", AppleOriginalTransactionId, AppleAccountToken, DB) :
                Webhook(Request(fn, "apple", AppleOriginalTransactionId, AppleAccountToken,
                                AppleProductId, info, clock, pick), "apple", type)

GoogleSubscriptionWebhook ==
    \E type \in GoogleSubscriptionTypes, tok \in Tokens :
        LET fn == process_subscription_notification(type)
        IN  \E product \in (IF fn \in PurchaseHandlers THEN SubscriptionIds ELSE {"none"}) :
            \E pick \in Picks(fn, "google", tok, tok, DB) :
                Webhook(Request(fn, "google", tok, tok, product, TRUE, clock, pick),
                        "subscription", type)

GoogleOneTimeWebhook ==
    \E type \in GoogleOneTimeTypes, tok \in Tokens :
        LET fn == process_one_time_notification(type)
        IN  \E product \in (IF fn \in PurchaseHandlers THEN Skus ELSE {"none"}) :
            \E pick \in Picks(fn, "google", tok, tok, DB) :
                Webhook(Request(fn, "google", tok, tok, product, TRUE, clock, pick),
                        "one_time", type)

\* payload.test_notification: answered at once.
GoogleTestWebhook ==
    Webhook(Request("test_notification", "google", "none", "none", "none", TRUE, clock, NoRow),
            "test", "none")

NextHook ==
    \/ AppleWebhook
    \/ GoogleSubscriptionWebhook
    \/ GoogleOneTimeWebhook
    \/ GoogleTestWebhook
    \/ StepRequest(1)
    \/ Respond
    \/ Tick

SpecHook == Init /\ [][NextHook]_vars

\* The same, and any storage call may fail.
NextHookFault ==
    \/ AppleWebhook
    \/ GoogleSubscriptionWebhook
    \/ GoogleOneTimeWebhook
    \/ GoogleTestWebhook
    \/ StepRequest(1)
    \/ StorageFailure(1)
    \/ Respond
    \/ Tick

SpecHookFault == Init /\ [][NextHookFault]_vars

----------------------------------------------------------------------------
\* The webhooks and the API, one request at a time.

\* POST /subscriptions/:subscription_id/cancel and /refund
ApiArrive ==
    \E fn \in {"cancel_subscription", "refund_subscription"}, id \in 1..MaxRequests :
        LET hit == Subscription_find_by_id(subscriptions, id)
            pick == IF hit = {} THEN NoRow ELSE CHOOSE i \in hit : TRUE
        IN  Arrive(1, Request(fn, "none", "none", "none", "none", TRUE, NULL, pick))

\* POST /entitlements/grant for a user of the table, for life or for a term.
GrantArrive ==
    \E u \in DOMAIN users, e \in EntitlementIds, expires_at \in {NULL, clock + SubscriptionDays} :
        Arrive(1, [Request("grant_entitlement", "none", "none", "none", "none", TRUE, NULL, NoRow)
                       EXCEPT !.user_id = users[u].id, !.entitlement_id = e,
                              !.expires_at = expires_at])

\* POST /users/:user_id/entitlements/:entitlement_id/revoke
RevokeArrive ==
    \E u \in DOMAIN users, e \in EntitlementIds :
        LET hit == UserEntitlement_find_active_for_user(user_entitlements, users[u].id, e, clock)
        IN  \E pick \in (IF hit = {} THEN {NoRow} ELSE hit) :
                Arrive(1, [Request("revoke_entitlement", "none", "none", "none", "none",
                                   TRUE, NULL, pick)
                               EXCEPT !.user_id = users[u].id, !.entitlement_id = e])

\* POST /users
CreateUserArrive ==
    \E token \in Tokens \cup {AppleAccountToken} :
        LET hit == User_find_by_app_user_id(users, token)
        IN  \E pick \in (IF hit = {} THEN {NoRow} ELSE hit) :
                Arrive(1, Request("create_user", "none", "none", token, "none", TRUE, NULL, pick))

NextApi ==
    \/ FaultArrive
    \/ ApiArrive
    \/ GrantArrive
    \/ RevokeArrive
    \/ CreateUserArrive
    \/ StepRequest(1)
    \/ Respond
    \/ Tick

SpecApi == Init /\ [][NextApi]_vars

----------------------------------------------------------------------------
\* Google subscription notifications whose purchase token is any string the
\* payload may carry, the text of an order id among them.

PurchaseTokens == Tokens \cup {GoogleOrderId}

GoogleTokenWebhook ==
    \E type \in GoogleSubscriptionTypes, tok \in PurchaseTokens :
        LET fn == process_subscription_notification(type)
        IN  \E product \in (IF fn \in PurchaseHandlers THEN {"g_sub"} ELSE {"none"}) :
            \E pick \in Picks(fn, "google", tok, tok, DB) :
                Webhook(Request(fn, "google", tok, tok, product, TRUE, clock, pick),
                        "subscription", type)

NextTokens ==
    \/ GoogleTokenWebhook
    \/ StepRequest(1)
    \/ Respond
    \/ Tick

SpecTokens == Init /\ [][NextTokens]_vars

----------------------------------------------------------------------------
\* Vocabulary of the properties.

Range(seq) == { seq[i] : i \in DOMAIN seq }

\* The entitlement rows whose subscription_id is sid.
Linked(table, sid) == { j \in DOMAIN table : table[j].subscription_id = sid }

\* A request was served in this step (Spec).
RequestServed == served' = served + 1

\* The handlers of each canonical event kind.
RenewedHandlers ==
    {"process_subscription_renewal", "process_subscription_recovered",
     "process_subscription_renewed", "process_subscription_restarted"}
ExpiredHandlers ==
    {"process_subscription_expiration", "process_grace_period_expiration",
     "process_subscription_expired"}
CancelledHandlers == {"process_subscription_canceled", "cancel_subscription"}
RefundedHandlers ==
    {"process_refund", "process_subscription_revoked", "process_one_time_canceled",
     "refund_subscription"}
EnteredGraceHandlers == {"process_renewal_failure", "process_subscription_in_grace_period"}
PausedHandlers == {"process_subscription_on_hold"}
AutoRenewChangedHandlers == {"process_renewal_status_change"}
ExtendedExpiryHandlers == {"process_renewal_extension"}

\* The columns the idempotence property compares.
Ledger(subs, ents) ==
    [subs |-> [i \in DOMAIN subs |->
                 <<subs[i].status, subs[i].expires_date, subs[i].auto_renew_status,
                   subs[i].renewal_grace_period_expires_date, subs[i].cancellation_date>>],
     ents |-> [j \in DOMAIN ents |-> ents[j].expires_at]]

----------------------------------------------------------------------------
\* C1: after a Purchased event is applied (also when the same event was
\* applied before), there is exactly one subscription row for its (store,
\* original_transaction_id, product) and exactly one entitlement row per
\* entitlement mapped to the product.
C1_NoDuplicateGrants ==
    (last.fn \in PurchaseHandlers /\ last.result = "ok") =>
        LET s    == subscriptions[last.sub]
            same == { i \in DOMAIN subscriptions :
                        /\ subscriptions[i].store = s.store
                        /\ subscriptions[i].original_transaction_id = s.original_transaction_id
                        /\ subscriptions[i].product_id = s.product_id }
        IN  /\ Cardinality(same) = 1
            /\ \A e \in Range(Product_get_entitlements(s.product_id)) :
                 Cardinality({ j \in DOMAIN user_entitlements :
                                 /\ user_entitlements[j].subscription_id \in same
                                 /\ user_entitlements[j].entitlement_id = e }) = 1

\* C2: at most one subscription row per (store, original_transaction_id) in
\* every state, and a renewal event adds no subscription row.
OneSubscriptionPerKey(subs) ==
    \A i, j \in DOMAIN subs :
        (subs[i].store = subs[j].store
           /\ subs[i].original_transaction_id = subs[j].original_transaction_id) => i = j

C2_OneSubscriptionPerKey ==
    [][ /\ OneSubscriptionPerKey(subscriptions')
        /\ (RequestServed /\ last'.fn \in RenewedHandlers)
              => Len(subscriptions') = Len(subscriptions) ]_vars

\* C3: applying the same Renewed, Expired, Cancelled, Refunded, Paused,
\* AutoRenewChanged or ExtendedExpiry event a second time, right after the
\* first, changes neither the subscription rows nor the entitlement rows.
IdempotentHandlers ==
    RenewedHandlers \cup ExpiredHandlers \cup CancelledHandlers \cup RefundedHandlers
        \cup PausedHandlers \cup AutoRenewChangedHandlers \cup ExtendedExpiryHandlers
        \cup {"process_subscription_revocation"}

C3_Idempotent ==
    [][ ( /\ RequestServed
          /\ last.fn \in IdempotentHandlers /\ last.result = "ok"
          /\ last'.fn = last.fn /\ last'.sub = last.sub /\ last'.result = "ok" )
        => Ledger(subscriptions', user_entitlements') = Ledger(subscriptions, user_entitlements)
      ]_vars

\* C5: a Renewed event that occurred before the stored refund of its
\* subscription is discarded as stale: the subscription stays Refunded and no
\* entitlement of it is active again.
C5_StaleRenewedDiscarded ==
    (last.fn \in RenewedHandlers /\ last.result = "ok"
        /\ last.stale /\ last.pre_status = "refunded") =>
        /\ subscriptions[last.sub].status = "refunded"
        /\ \A j \in Linked(user_entitlements, last.sub) :
             ~IsActive(user_entitlements[j], clock)

\* C6: after a Refunded event is applied, the subscription is Refunded and
\* every entitlement linked to it has expires_at at or before the processing
\* time, those that had no expiry included.
C6_RefundRevokes ==
    (last.fn \in RefundedHandlers /\ last.result = "ok") =>
        /\ subscriptions[last.sub].status = "refunded"
        /\ \A j \in Linked(user_entitlements, last.sub) :
             /\ user_entitlements[j].expires_at # NULL
             /\ user_entitlements[j].expires_at <= clock

\* A refund was applied to a purchase without expiry and revoked its grants.
C6_Witness ==
    /\ last.fn \in RefundedHandlers /\ last.result = "ok"
    /\ subscriptions[last.sub].expires_date = NULL
    /\ Cardinality(Linked(user_entitlements, last.sub)) >= 2
    /\ \A j \in Linked(user_entitlements, last.sub) : user_entitlements[j].expires_at = clock

\* C7: a Cancelled event applied to an Active subscription sets the status
\* Cancelled, records the cancellation date, turns auto-renew off, and leaves
\* the set of entitlement rows and their expires_at as they were.
C7_CancelKeepsAccess ==
    [][ ( /\ RequestServed
          /\ last'.fn \in CancelledHandlers /\ last'.result = "ok"
          /\ last'.pre_status = "active" )
        => /\ subscriptions'[last'.sub].status = "cancelled"
           /\ subscriptions'[last'.sub].cancellation_date # NULL
           /\ subscriptions'[last'.sub].auto_renew_status = FALSE
           /\ DOMAIN user_entitlements' = DOMAIN user_entitlements
           /\ \A j \in DOMAIN user_entitlements :
                user_entitlements'[j].expires_at = user_entitlements[j].expires_at
      ]_vars

\* An Active subscription was cancelled and one of its grants is still active.
C7_Witness ==
    /\ last.fn \in CancelledHandlers /\ last.result = "ok" /\ last.pre_status = "active"
    /\ subscriptions[last.sub].status = "cancelled"
    /\ \E j \in Linked(user_entitlements, last.sub) : IsActive(user_entitlements[j], clock)

\* C8: an EnteredGrace event sets the status GracePeriod and the grace-period
\* expiry, and creates, deletes and changes no entitlement row.
C8_GraceKeepsEntitlements ==
    [][ ( /\ RequestServed
          /\ last'.fn \in EnteredGraceHandlers /\ last'.result = "ok" )
        => /\ subscriptions'[last'.sub].status = "grace_period"
           /\ subscriptions'[last'.sub].renewal_grace_period_expires_date = clock + GracePeriodDays
           /\ user_entitlements' = user_entitlements
      ]_vars

\* A subscription with grants entered the grace period.
C8_Witness ==
    /\ last.fn \in EnteredGraceHandlers /\ last.result = "ok"
    /\ subscriptions[last.sub].status = "grace_period"
    /\ Linked(user_entitlements, last.sub) # {}

\* C9: a Renewed event applied to an Expired, Cancelled or Refunded
\* subscription none of whose entitlements is active sets it Active and
\* creates, for every entitlement mapped to the product, a new row that starts
\* at the processing time and expires with the subscription; the old rows
\* keep their expires_at.
C9_RestartRegrants ==
    [][ ( /\ RequestServed
          /\ last'.fn \in RenewedHandlers /\ last'.result = "ok"
          /\ last'.pre_status \in {"expired", "cancelled", "refunded"}
          /\ \A j \in Linked(user_entitlements, last'.sub) :
               ~IsActive(user_entitlements[j], clock) )
        => /\ subscriptions'[last'.sub].status = "active"
           /\ \A e \in Range(Product_get_entitlements(subscriptions'[last'.sub].product_id)) :
                \E j \in DOMAIN user_entitlements' \ DOMAIN user_entitlements :
                    /\ user_entitlements'[j].subscription_id = last'.sub
                    /\ user_entitlements'[j].entitlement_id = e
                    /\ user_entitlements'[j].starts_at = clock
                    /\ user_entitlements'[j].expires_at = subscriptions'[last'.sub].expires_date
           /\ \A j \in DOMAIN user_entitlements :
                user_entitlements'[j].expires_at = user_entitlements[j].expires_at
      ]_vars

----------------------------------------------------------------------------
\* The tables a request can leave when it runs alone, from start to end, on db.
Outcomes(h, db) ==
    { Run(Request(h.fn, h.store, h.tx, h.user_token, h.product, h.info,
                  h.occurred_at, pick), db, clock).db :
        pick \in Picks(h.fn, h.store, h.tx, h.user_token, db) }

\* The tables the requests a then b can leave when b starts after a has ended.
Serial(a, b) == UNION { Outcomes(b, db) : db \in Outcomes(a, snap) }

\* C4: when two events for the same subscription are processed at the same
\* time, the subscription and entitlement rows they leave are those of one of
\* the two orders in which the events could have been applied one after the
\* other.
C4_Serializable ==
    ( /\ proc[1].pc = "done" /\ proc[2].pc = "done"
      /\ proc[1].fn \notin PurchaseHandlers /\ proc[2].fn \notin PurchaseHandlers
      /\ proc[1].sub.id # NoRow /\ proc[2].sub.id = proc[1].sub.id )
    => \E db \in Serial(proc[1], proc[2]) \cup Serial(proc[2], proc[1]) :
          /\ db.subscriptions = subscriptions
          /\ db.user_entitlements = user_entitlements

\* C10: a request that ends with a storage error leaves the subscription and
\* entitlement rows either as they were when it arrived or as the complete
\* handler would have left them.
C10_AtomicEvent ==
    (proc[1].pc = "done" /\ proc[1].result = "DatabaseError")
    => \E db \in {snap} \cup Outcomes(proc[1], snap) :
          /\ db.subscriptions = subscriptions
          /\ db.user_entitlements = user_entitlements

----------------------------------------------------------------------------
\* C11: when a request that ended with a storage error is delivered again and
\* then succeeds, the subscription and entitlement rows are those a single
\* successful processing would have left on the tables of the first delivery.
C11_RetrySafe ==
    (proc[1].pc = "done" /\ proc[1].result = "ok" /\ last.result = "DatabaseError")
    => \E db \in Outcomes(proc[1], snap) :
          /\ db.subscriptions = subscriptions
          /\ db.user_entitlements = user_entitlements

\* The validity windows [starts_at, expires_at) of two entitlement rows have an
\* instant in common; a row without expires_at is valid for ever.
WindowsOverlap(a, b) ==
    LET from == IF a.starts_at >= b.starts_at THEN a.starts_at ELSE b.starts_at
    IN  /\ (a.expires_at = NULL \/ a.expires_at > from)
        /\ (b.expires_at = NULL \/ b.expires_at > from)

\* C12: no two entitlement rows with the same user, entitlement and
\* subscription have overlapping validity windows.
C12_NoOverlappingGrants ==
    \A i, j \in DOMAIN user_entitlements :
        ( /\ i # j
          /\ user_entitlements[i].user_id = user_entitlements[j].user_id
          /\ user_entitlements[i].entitlement_id = user_entitlements[j].entitlement_id
          /\ user_entitlements[i].subscription_id = user_entitlements[j].subscription_id )
        => ~WindowsOverlap(user_entitlements[i], user_entitlements[j])

\* C13: after a Renewed event is applied, the subscription is Active, expires
\* a subscription period after the processing time, carries the transaction
\* id of the event (Apple), and has no grace-period expiry.
C13_RenewedSetsRow ==
    (last.fn \in RenewedHandlers /\ last.result = "ok") =>
        LET s == subscriptions[last.sub]
        IN  /\ s.status = "active"
            /\ s.expires_date = clock + SubscriptionDays
            /\ (s.store = "apple" => s.store_transaction_id = AppleTransactionId)
            /\ s.renewal_grace_period_expires_date = NULL

\* C14: after a Renewed or ExtendedExpiry event is applied, every entitlement
\* row of the subscription that was active when the event arrived, and every
\* row the event created for it, expires with the subscription.
C14_EntitlementsFollowExpiry ==
    [][ ( /\ RequestServed
          /\ last'.fn \in RenewedHandlers \cup ExtendedExpiryHandlers
          /\ last'.result = "ok" )
        => \A j \in Linked(user_entitlements', last'.sub) :
              (j \notin DOMAIN user_entitlements \/ IsActive(user_entitlements[j], clock))
              => user_entitlements'[j].expires_at = subscriptions'[last'.sub].expires_date
      ]_vars

\* C15: after an Expired event is applied, the subscription is Expired and
\* every entitlement row of it has expires_at at or before the processing time.
C15_ExpiredRevokes ==
    (last.fn \in ExpiredHandlers /\ last.result = "ok") =>
        /\ subscriptions[last.sub].status = "expired"
        /\ \A j \in Linked(user_entitlements, last.sub) :
             /\ user_entitlements[j].expires_at # NULL
             /\ user_entitlements[j].expires_at <= clock

\* An Expired event ended, a day after the purchase, a grant that had a term left.
C15_Witness ==
    /\ last.fn \in ExpiredHandlers /\ last.result = "ok"
    /\ last.pre_status = "active"
    /\ subscriptions[last.sub].status = "expired"
    /\ subscriptions[last.sub].expires_date > clock
    /\ \E j \in Linked(user_entitlements, last.sub) :
         /\ user_entitlements[j].starts_at < clock
         /\ user_entitlements[j].expires_at = clock

\* C16: after an ExtendedExpiry event is applied, the subscription expires at
\* the extended date, and its status is the one it had, except that an
\* Expired subscription is Active.
C16_ExtensionStatus ==
    (last.fn \in ExtendedExpiryHandlers /\ last.result = "ok") =>
        /\ subscriptions[last.sub].expires_date = clock + ExtensionDays
        /\ subscriptions[last.sub].status =
              IF last.pre_status = "expired" THEN "active" ELSE last.pre_status

\* C17: an AutoRenewChanged event changes, of the subscription row, the
\* auto-renew flag (and the update timestamp) only, and changes no other
\* subscription row and no entitlement row.
C17_AutoRenewOnly ==
    [][ ( /\ RequestServed
          /\ last'.fn \in AutoRenewChangedHandlers /\ last'.result = "ok" )
        => /\ DOMAIN subscriptions' = DOMAIN subscriptions
           /\ \A i \in DOMAIN subscriptions :
                subscriptions'[i] =
                   IF i = last'.sub
                   THEN [subscriptions[i] EXCEPT
                            !.auto_renew_status = subscriptions'[i].auto_renew_status,
                            !.updated_at = subscriptions'[i].updated_at]
                   ELSE subscriptions[i]
           /\ user_entitlements' = user_entitlements
      ]_vars

\* The auto-renew flag of a subscription was turned off a day after its purchase.
C17_Witness ==
    /\ last.fn \in AutoRenewChangedHandlers /\ last.result = "ok"
    /\ subscriptions[last.sub].auto_renew_status = FALSE
    /\ subscriptions[last.sub].status = "active"
    /\ subscriptions[last.sub].updated_at > subscriptions[last.sub].purchase_date
    /\ Linked(user_entitlements, last.sub) # {}

\* C18: every Cancelled subscription has a cancellation date, every
\* GracePeriod subscription has a grace-period expiry, and a subscription that
\* enters GracePeriod gets a grace-period expiry later than the time it enters.
C18_StatusDatesConsistent ==
    [][ /\ \A i \in DOMAIN subscriptions' :
             /\ subscriptions'[i].status = "cancelled"
                   => subscriptions'[i].cancellation_date # NULL
             /\ subscriptions'[i].status = "grace_period"
                   => subscriptions'[i].renewal_grace_period_expires_date # NULL
        /\ \A i \in DOMAIN subscriptions :
             (subscriptions[i].status # "grace_period"
                 /\ subscriptions'[i].status = "grace_period")
             => subscriptions'[i].renewal_grace_period_expires_date > clock
      ]_vars

\* A subscription that went through the grace period was cancelled.
C18_Witness ==
    \E i \in DOMAIN subscriptions :
        /\ subscriptions[i].status = "cancelled"
        /\ subscriptions[i].cancellation_date = clock
        /\ subscriptions[i].renewal_grace_period_expires_date # NULL

\* C19: no request removes an entitlement row, and an entitlement row that
\* exists changes in its expires_at and its update timestamp only.
C19_EntitlementsNeverDeleted ==
    [][ /\ DOMAIN user_entitlements \subseteq DOMAIN user_entitlements'
        /\ \A j \in DOMAIN user_entitlements :
             user_entitlements'[j] =
                [user_entitlements[j] EXCEPT
                    !.expires_at = user_entitlements'[j].expires_at,
                    !.updated_at = user_entitlements'[j].updated_at]
      ]_vars

\* A Refunded event ended, a day after the purchase, rows that are still there.
C19_Witness ==
    /\ last.fn \in RefundedHandlers /\ last.result = "ok"
    /\ \E j \in Linked(user_entitlements, last.sub) :
         /\ user_entitlements[j].starts_at < clock
         /\ user_entitlements[j].updated_at = clock
         /\ user_entitlements[j].expires_at = clock

\* C20: a Renewed event for a subscription that exists, whatever its status,
\* is accepted without error and leaves the subscription Active.
C20_NoTerminalStatus ==
    (last.fn \in RenewedHandlers) =>
        /\ last.result = "ok"
        /\ subscriptions[last.sub].status = "active"

\* A Refunded subscription received a Renewed event and is Active.
C20_Witness ==
    /\ last.fn \in RenewedHandlers /\ last.result = "ok"
    /\ last.pre_status = "refunded"
    /\ subscriptions[last.sub].status = "active"

----------------------------------------------------------------------------
\* Properties of the webhook entry points (SpecHook, SpecHookFault): proc[1]
\* is the notification being answered, snap the tables when it arrived.

Answered == proc[1].pc = "done"

\* The store product id of the notification names no row of products.
UnknownProduct ==
    \A p \in Products :
        (IF proc[1].store = "apple" THEN p.apple_product_id ELSE p.google_product_id)
            # proc[1].product

\* C21: a purchase whose store product id matches no product is answered
\* with the not-found error, and the subscription and entitlement tables are
\* what they were when it arrived.
C21_UnknownProductRejected ==
    (Answered /\ proc[1].fn \in PurchaseHandlers /\ proc[1].info /\ UnknownProduct)
        => /\ proc[1].result = "NotFound"
           /\ subscriptions = snap.subscriptions
           /\ user_entitlements = snap.user_entitlements

C21_Witness ==
    /\ Answered /\ proc[1].fn \in PurchaseHandlers /\ UnknownProduct
    /\ proc[1].result = "NotFound"
    /\ Len(subscriptions) > 0

\* The handlers of the events that need an existing subscription.
NeedsSubscription ==
    RenewedHandlers \cup ExpiredHandlers \cup CancelledHandlers \cup RefundedHandlers
        \cup EnteredGraceHandlers \cup PausedHandlers \cup AutoRenewChangedHandlers
        \cup ExtendedExpiryHandlers \cup {"process_subscription_revocation"}

\* A subscription of the notification's (store, original transaction id) was
\* in the table when it arrived.
SubscriptionKnown ==
    \E i \in DOMAIN snap.subscriptions :
        /\ snap.subscriptions[i].store = proc[1].store
        /\ snap.subscriptions[i].original_transaction_id = proc[1].tx

Signal(h) == [kind |-> h.result, status |-> into_response(h.result)]

\* The answer to an Apple notification of handler fn delivered now, when no
\* subscription matches its original transaction id.
SubscriptionNotFoundAnswer(fn) ==
    Run(Request(fn, "apple", AppleOriginalTransactionId, AppleAccountToken,
                AppleProductId, TRUE, clock, NoRow), DB, clock).h

\* C23: the answer to a purchase of an unknown product and the answer to an
\* event whose subscription does not exist never have the same error kind
\* and the same status.
C23_DistinctSignals ==
    (Answered /\ proc[1].fn \in PurchaseHandlers /\ UnknownProduct /\ proc[1].result # "ok")
        => \A fn \in AppleHandlers \ PurchaseHandlers :
               Picks(fn, "apple", AppleOriginalTransactionId, AppleAccountToken, DB) = {NoRow}
                   => Signal(SubscriptionNotFoundAnswer(fn)) # Signal(proc[1])

\* The notification's type has no arm of its own in the match that dispatches it.
Unrecognized ==
    LET n == proc[1].notification
    IN  \/ n.kind = "apple" /\ handle_apple_webhook(n.type) = "unknown_notification_type"
        \/ /\ n.kind = "subscription"
           /\ process_subscription_notification(n.type) = "process_subscription_notification"
        \/ n.kind = "one_time"
           /\ process_one_time_notification(n.type) = "unknown_notification_type"

\* The types the vendor sends for information only: Google's subscription
\* type 8, SUBSCRIPTION_PRICE_CHANGE_CONFIRMED.
Advisory == proc[1].notification = [kind |-> "subscription", type |-> "8"]

\* C24: a notification of an unrecognized type that is not advisory is
\* answered with an error, and no subscription or entitlement row changes.
C24_UnrecognizedIsError ==
    (Answered /\ Unrecognized /\ ~Advisory)
        => /\ proc[1].result # "ok"
           /\ subscriptions = snap.subscriptions
           /\ user_entitlements = snap.user_entitlements

\* C25: an Apple notification of a state-changing type that carries no
\* signed transaction info is rejected, never acknowledged as a success.
C25_MalformedRejected ==
    (Answered /\ proc[1].notification.kind = "apple" /\ proc[1].fn \in AppleHandlers
              /\ ~proc[1].info)
        => proc[1].result # "ok" /\ into_response(proc[1].result) # 200

\* The notification is of a state-changing Apple type and has no signed
\* transaction info.
Malformed ==
    proc[1].notification.kind = "apple" /\ proc[1].fn \in AppleHandlers /\ ~proc[1].info

\* C26: a processed event is answered 200; an unsupported or malformed
\* notification and a purchase of an unknown product are answered with a 4xx
\* status; a storage failure is answered with a 5xx status.
C26_HttpClasses ==
    Answered =>
        LET status == into_response(proc[1].result)
        IN  /\ proc[1].result = "ok" => status = 200
            /\ proc[1].result = "DatabaseError" => status \in 500..599
            /\ ( /\ proc[1].result # "DatabaseError"
                 /\ \/ Unrecognized /\ ~Advisory
                    \/ Malformed
                    \/ proc[1].fn \in PurchaseHandlers /\ proc[1].info /\ UnknownProduct )
                   => status \in 400..499

----------------------------------------------------------------------------
\* The entitlement queries.

\* The rows of (user, entitlement) that the predicate of the specification
\* calls active at the current time.
ActiveRows(user_id, entitlement_id) ==
    { j \in DOMAIN user_entitlements :
        /\ user_entitlements[j].user_id = user_id
        /\ user_entitlements[j].entitlement_id = entitlement_id
        /\ user_entitlements[j].starts_at <= clock
        /\ \/ user_entitlements[j].expires_at = NULL
           \/ user_entitlements[j].expires_at > clock }

\* C27: check_entitlement_access reports access for (user, entitlement) if
\* and only if a row of theirs has starts_at <= now and no expires_at or an
\* expires_at after now, and list_active_for_user returns exactly the user's
\* rows of that kind.
C27_ActiveAccess ==
    \A u \in DOMAIN users :
        /\ \A e \in EntitlementIds :
               check_entitlement_access(user_entitlements, u, e, clock).has_access
                   <=> ActiveRows(u, e) # {}
        /\ LET listed == UserEntitlement_list_active_for_user(user_entitlements, u, clock)
           IN  /\ { listed[i].id : i \in DOMAIN listed }
                      = UNION { ActiveRows(u, e) : e \in EntitlementIds }
               /\ Len(listed) = Cardinality(UNION { ActiveRows(u, e) : e \in EntitlementIds })

C27_Witness ==
    /\ \E u \in DOMAIN users, e \in EntitlementIds :
          /\ ~check_entitlement_access(user_entitlements, u, e, clock).has_access
          /\ \E j \in DOMAIN user_entitlements :
                /\ user_entitlements[j].user_id = u
                /\ user_entitlements[j].entitlement_id = e
                /\ user_entitlements[j].expires_at = clock
    /\ \E u \in DOMAIN users, e \in EntitlementIds :
          /\ check_entitlement_access(user_entitlements, u, e, clock).has_access
          /\ \E j \in ActiveRows(u, e) : user_entitlements[j].expires_at = NULL

----------------------------------------------------------------------------
\* Purchases.

\* The purchase answered at worker 1 arrived on a fresh key and succeeded.
FreshPurchase ==
    /\ Answered /\ proc[1].fn \in PurchaseHandlers /\ proc[1].info
    /\ proc[1].result = "ok"
    /\ ~SubscriptionKnown

\* The entitlement rows written since the notification arrived.
NewEntitlements ==
    { j \in DOMAIN user_entitlements : j > Len(snap.user_entitlements) }

\* C28: a purchase on a fresh key creates one subscription with status
\* active and, for each entitlement of the product, exactly one entitlement
\* row, owned by the subscription's user, linked to the subscription, starting
\* at the purchase time and expiring at the subscription's expires_date; a
\* Google one-time purchase has no expires_date, no expires_at and no
\* auto-renew.
C28_PurchaseGrants ==
    FreshPurchase =>
        LET s == subscriptions[Len(subscriptions)]
            mapped == Product_get_entitlements(
                          Product_find_by_store_product_id(proc[1].store, proc[1].product).id)
        IN  /\ Len(subscriptions) = Len(snap.subscriptions) + 1
            /\ s.store = proc[1].store /\ s.original_transaction_id = proc[1].tx
            /\ s.status = "active"
            /\ s.user_id \in DOMAIN users
            /\ \A i \in DOMAIN mapped :
                   Cardinality({ j \in NewEntitlements :
                                   user_entitlements[j].entitlement_id = mapped[i] }) = 1
            /\ Cardinality(NewEntitlements) = Len(mapped)
            /\ \A j \in NewEntitlements :
                   /\ user_entitlements[j].user_id = s.user_id
                   /\ user_entitlements[j].subscription_id = s.id
                   /\ user_entitlements[j].starts_at = s.purchase_date
                   /\ user_entitlements[j].starts_at = clock
                   /\ user_entitlements[j].expires_at = s.expires_date
            /\ proc[1].fn = "process_one_time_purchased"
                   => /\ s.expires_date = NULL
                      /\ s.auto_renew_status = FALSE
                      /\ \A j \in NewEntitlements : user_entitlements[j].expires_at = NULL

C28_Witness ==
    /\ FreshPurchase
    /\ proc[1].fn = "process_one_time_purchased"
    /\ Cardinality(NewEntitlements) = 2
    /\ Len(snap.subscriptions) > 0 /\ Len(snap.user_entitlements) > 0

----------------------------------------------------------------------------
\* Normalization of single notification types.

\* The subscriptions of the answered notification's (store, original
\* transaction id).
Subject ==
    { i \in DOMAIN subscriptions :
        /\ subscriptions[i].store = proc[1].store
        /\ subscriptions[i].original_transaction_id = proc[1].tx }

\* C29: a Google subscription notification of type 10 for an existing
\* subscription sets its status to paused and leaves none of the entitlements
\* linked to it active.
C29_Type10Pauses ==
    (Answered /\ proc[1].notification = [kind |-> "subscription", type |-> "10"]
              /\ proc[1].result = "ok" /\ SubscriptionKnown)
        => \A i \in Subject :
               /\ subscriptions[i].status = "paused"
               /\ \A j \in DOMAIN user_entitlements :
                      user_entitlements[j].subscription_id = subscriptions[i].id
                          => /\ user_entitlements[j].expires_at # NULL
                             /\ user_entitlements[j].expires_at <= clock

\* C30: an Apple REVOKE notification for an existing subscription sets its
\* status to cancelled, sets its cancellation date, turns auto-renew off, and
\* leaves expires_at of every entitlement row as it was.
C30_RevokeCancelsOnly ==
    (Answered /\ proc[1].notification = [kind |-> "apple", type |-> "REVOKE"]
              /\ proc[1].info /\ proc[1].result = "ok" /\ SubscriptionKnown)
        => /\ \E i \in Subject :
                  /\ subscriptions[i].status = "cancelled"
                  /\ subscriptions[i].cancellation_date # NULL
                  /\ subscriptions[i].auto_renew_status = FALSE
           /\ Len(user_entitlements) = Len(snap.user_entitlements)
           /\ \A j \in DOMAIN user_entitlements :
                  user_entitlements[j].expires_at = snap.user_entitlements[j].expires_at

\* C31: an Apple OFFER_REDEEMED notification on a fresh key has the effect
\* of SUBSCRIBED: it creates an active subscription of the key and one
\* entitlement row for each entitlement of the product.
C31_OfferRedeemedPurchases ==
    (Answered /\ proc[1].notification = [kind |-> "apple", type |-> "OFFER_REDEEMED"]
              /\ proc[1].info /\ proc[1].result = "ok" /\ ~SubscriptionKnown)
        => /\ \E i \in Subject : subscriptions[i].status = "active"
           /\ Cardinality(NewEntitlements)
                  = Len(Product_get_entitlements(
                            Product_find_by_store_product_id("apple", proc[1].product).id))

\* C32: a renewal or expiry notification whose original transaction id
\* matches no subscription is not failed: it is answered ok and a
\* subscription of its key exists afterwards.
C32_CreateIfAbsent ==
    (Answered /\ proc[1].fn \in RenewedHandlers \cup ExpiredHandlers /\ proc[1].info
              /\ ~SubscriptionKnown)
        => proc[1].result = "ok" /\ Subject # {}

----------------------------------------------------------------------------
\* Access and its frame.

\* C34: whenever a subscription is active with an expires_date in the
\* future, its owner holds an active entitlement row for every entitlement
\* of the subscription's product.
C34_PaidUpHasAccess ==
    \A i \in DOMAIN subscriptions :
        (subscriptions[i].status = "active" /\ subscriptions[i].expires_date > clock)
            => LET mapped == Product_get_entitlements(subscriptions[i].product_id)
               IN  \A k \in DOMAIN mapped :
                       \E j \in DOMAIN user_entitlements :
                           /\ user_entitlements[j].user_id = subscriptions[i].user_id
                           /\ user_entitlements[j].entitlement_id = mapped[k]
                           /\ user_entitlements[j].starts_at <= clock
                           /\ \/ user_entitlements[j].expires_at = NULL
                              \/ user_entitlements[j].expires_at > clock

\* The handlers of the events that must not restore access.
NoRestoreHandlers ==
    (CancelledHandlers \cup EnteredGraceHandlers \cup AutoRenewChangedHandlers
        \cup ExpiredHandlers \cup PausedHandlers \cup {"process_subscription_revocation"})
        \ {"cancel_subscription"}

\* C36: a cancellation, grace, auto-renew, expiry or pause event makes none
\* of its subscription's entitlement rows active that was not active before
\* it (force-expired by a refund, in particular): such a row keeps its
\* expires_at, and no row is added.
C36_NoRestoreAfterRefund ==
    [][(RequestServed /\ last'.fn \in NoRestoreHandlers)
          => /\ Len(user_entitlements') = Len(user_entitlements)
             /\ \A j \in Linked(user_entitlements, last'.sub) :
                    ~IsActive(user_entitlements[j], clock)
                        => /\ ~IsActive(user_entitlements'[j], clock)
                           /\ user_entitlements'[j].expires_at = user_entitlements[j].expires_at]_vars

C36_Witness ==
    /\ last.fn \in ExpiredHandlers \cup PausedHandlers /\ last.result = "ok"
    /\ last.pre_status = "refunded"
    /\ Linked(user_entitlements, last.sub) # {}
    /\ \A j \in Linked(user_entitlements, last.sub) : ~IsActive(user_entitlements[j], clock)

\* C39: a Google purchase rejected because its product is not in the
\* catalog leaves every table as it was: no user row has been created.
C39_RejectedPurchaseNoUser ==
    (Answered /\ proc[1].store = "google" /\ proc[1].fn \in PurchaseHandlers
              /\ UnknownProduct /\ proc[1].result = "NotFound")
        => DB = snap

----------------------------------------------------------------------------
\* Properties of the API (SpecApi).

\* C33: cancel_subscription on a subscription that is not active is
\* answered BadRequest, on an unknown id NotFound, and in both cases every
\* subscription and entitlement row is as it was.
C33_CancelOnlyActive ==
    (Answered /\ proc[1].fn = "cancel_subscription")
        => /\ proc[1].pick = NoRow => proc[1].result = "NotFound" /\ DB = snap
           /\ (proc[1].pick # NoRow /\ snap.subscriptions[proc[1].pick].status # "active")
                  => proc[1].result = "BadRequest" /\ DB = snap

C33_Witness ==
    /\ Answered /\ proc[1].fn = "cancel_subscription"
    /\ proc[1].pick # NoRow
    /\ snap.subscriptions[proc[1].pick].status = "cancelled"
    /\ proc[1].result = "BadRequest"
    /\ user_entitlements # <<>>

\* The handlers that end access at once: refund, expiry, pause, Apple REVOKE
\* and the refund API.
HardRevocationHandlers ==
    RefundedHandlers \cup ExpiredHandlers \cup PausedHandlers
        \cup {"process_subscription_revocation"}

\* C35: a hard revocation or expiry for a subscription changes only the
\* entitlement rows linked to it: every other row, of another subscription
\* or granted by hand, is as it was, and no row is added.
C35_RevocationFrame ==
    (Answered /\ proc[1].fn \in HardRevocationHandlers /\ proc[1].sub.id # NoRow)
        => /\ Len(user_entitlements) = Len(snap.user_entitlements)
           /\ \A j \in DOMAIN snap.user_entitlements :
                  snap.user_entitlements[j].subscription_id # proc[1].sub.id
                      => user_entitlements[j] = snap.user_entitlements[j]

C35_Witness ==
    /\ Answered /\ proc[1].fn \in HardRevocationHandlers /\ proc[1].result = "ok"
    /\ \E j \in DOMAIN user_entitlements :
          /\ user_entitlements[j].subscription_id = proc[1].sub.id
          /\ user_entitlements[j] # snap.user_entitlements[j]
    /\ \E j \in DOMAIN user_entitlements :
          /\ user_entitlements[j].subscription_id = NoRow
          /\ user_entitlements[j].user_id = proc[1].sub.user_id
          /\ IsActive(user_entitlements[j], clock)

\* C37: after revoke_entitlement(user, entitlement) has succeeded,
\* check_entitlement_access(user, entitlement) reports no access; when the
\* user has no active row of the entitlement the call is answered NotFound
\* and changes nothing.
C37_RevokeEndsAccess ==
    (Answered /\ proc[1].fn = "revoke_entitlement")
        => /\ proc[1].result = "ok"
                  => ~check_entitlement_access(user_entitlements, proc[1].user_id,
                                               proc[1].entitlement_id, clock).has_access
           /\ proc[1].pick = NoRow => proc[1].result = "NotFound" /\ DB = snap

----------------------------------------------------------------------------
\* Users.

\* C38: no two user rows have the same app_user_id.
C38_OneUserPerAppUserId ==
    \A i, j \in DOMAIN users : users[i].app_user_id = users[j].app_user_id => i = j

----------------------------------------------------------------------------
\* The subscription an event selects.

\* C40: an event with original transaction id K reads and changes only a
\* subscription whose (store, original_transaction_id) is (store, K).
C40_LookupByOriginalId ==
    (Answered /\ proc[1].fn \in NeedsSubscription)
        => /\ proc[1].pick # NoRow
                  => /\ snap.subscriptions[proc[1].pick].store = proc[1].store
                     /\ snap.subscriptions[proc[1].pick].original_transaction_id = proc[1].tx
           /\ \A i \in DOMAIN snap.subscriptions :
                  ~(/\ snap.subscriptions[i].store = proc[1].store
                    /\ snap.subscriptions[i].original_transaction_id = proc[1].tx)
                      => subscriptions[i] = snap.subscriptions[i]

====
